---- MODULE Spec2Model ----
(***************************************************************************)
(* Model of model_serving/model-optimization.ipynb: the notebook's cells   *)
(* run in order against a persistent file system (/saved_models, /serving) *)
(* and a REST model server; predict, benchmark_inference and               *)
(* convert_graph_def_to_saved_model are modelled step by step.             *)
(***************************************************************************)
EXTENDS Integers, Sequences, FiniteSets, TLC

(* ---------------- bounds of the model ---------------- *)
MaxRuns == 2        \* how many times the notebook is run from the top
NumEval == 100      \* number of images in eval_data
RowMod == 4         \* size of the family of score rows the server answers with
MaxBatchArg == 2    \* largest small batch argument tried in direct calls
MaxRepeatArg == 2   \* largest repeat argument tried in direct calls
MaxReruns == 2      \* how often the export cell is executed again in one run

(* ---------------- program constants ---------------- *)
NUM_CLASSES == 10
DefaultVersion == 1
DefaultBatch == 100
DefaultRepeat == 10

None == <<-1>>      \* Python None for a list of class ids (class ids are >= 0)
NoValue == -1

Versions == 1 .. 3

(* ---------------- graphs, signatures, files ---------------- *)
Node(n, o) == [name |-> n, op |-> o]

EmptyGraph == {}
EmptySig == [inputs |-> {}, outputs |-> {}]

\* tensor "<node>:<idx>"
Tensor(n, idx) == <<n, idx>>

\* the graph built by keras_model_fn and make_serving_input_receiver_fn
ExportedGraph ==
  { Node("serving_input_image", "Placeholder"),
    Node("logits/kernel", "VariableV2"),
    Node("logits/kernel/read", "Identity"),
    Node("logits/BiasAdd", "BiasAdd"),
    Node("softmax/Softmax", "Softmax") }

\* signature written by estimator.export_savedmodel
ExportedSig ==
  [inputs |-> { <<"input_image", Tensor("serving_input_image", 0)>> },
   outputs |-> { <<"softmax", Tensor("softmax/Softmax", 0)>> }]

File(n, r, o, g, s) == [name |-> n, run |-> r, ops |-> o, graph |-> g, sig |-> s]

\* the files of a SavedModel directory: the graph file and the variables
SavedModelFiles(names, r, o, g, s) ==
  { File(n, r, o, IF n = "saved_model.pb" THEN g ELSE EmptyGraph,
                  IF n = "saved_model.pb" THEN s ELSE EmptySig) : n \in names }

\* file names export_savedmodel writes
ExportFiles == {"saved_model.pb", "variables"}

\* file names simple_save writes
SimpleSaveFiles == {"saved_model.pb", "variables"}

NoDir == [exists |-> FALSE, files |-> {}]
Dir(fs) == [exists |-> TRUE, files |-> fs]

\* cp -r src/* dst : same-named files are overwritten, other files stay
CopyInto(dst, src) ==
  { f \in dst : ~ \E g \in src : g.name = f.name } \cup src

SetMax(S) == CHOOSE x \in S : \A y \in S : y <= x

(* ---------------- the notebook's code cells, in order ---------------- *)
CellOrder ==
  << "load", "train", "export", "inspect", "copy", "curl1", "describe",
     "predict1", "bench1", "freeze", "convert2", "curl2", "bench2",
     "optimize", "describe_opt", "convert3", "bench3" >>

\* mutant: the conversion to /serving/mnist/2 is run before the freeze cell
NextCellSwapped(c) ==
  LET order == << "load", "train", "export", "inspect", "copy", "curl1", "describe",
                  "predict1", "bench1", "convert2", "freeze", "curl2", "bench2",
                  "optimize", "describe_opt", "convert3", "bench3" >>
      idx == CHOOSE k \in 1 .. Len(order) : order[k] = c
  IN IF idx = Len(order) THEN "done" ELSE order[idx + 1]

CellIndex(c) == CHOOSE k \in 1 .. Len(CellOrder) : CellOrder[k] = c

NextCell(c) ==
  IF CellIndex(c) = Len(CellOrder) THEN "done" ELSE CellOrder[CellIndex(c) + 1]

VARIABLES
  run,              \* number of runs of the notebook started so far
  cell,             \* the cell about to run: "idle", a cell of CellOrder, "done", "failed"
  clock,            \* time.time() as seen by export_savedmodel
  model_dir,        \* /saved_models/mnist : [exists, ckpt]
  export_dir,       \* /saved_models/mnist/export : [exists, entries]
  serving,          \* /serving/mnist/<k> : [exists, files]
  deleted,          \* directories removed by the cell that ran last
  steps,            \* pipeline steps completed in this run, in order
  reads,            \* artifacts read by the steps of this run
  calls,            \* invocations of the external graph tools in this run
  saved_model_dir,  \* Python variable: name of the exported model directory (0: unset)
  bash_model_dir,   \* directory the bash copy cell picked (0: unset)
  cpc,              \* convert_graph_def_to_saved_model: "idle", "delete", "read",
                    \*   "save", "done", "raised"
  graph_filepath,   \* its argument graph_filepath: [dir, name]
  conv_export_dir,  \* its argument export_dir: the version k of /serving/mnist/<k>
  graph_def         \* the graph file it read

fsVars == << clock, model_dir, export_dir, serving, deleted >>
histVars == << steps, reads, calls >>
pyVars == << saved_model_dir, bash_model_dir >>

VARIABLES
  ppc,              \* predict: "idle", "post", "wait", "returned", "raised"
  p_instances,      \* predict's argument instances
  p_version,        \* predict's argument version
  res,              \* the response of the last request
  class_ids,        \* predict's return value
  sent,             \* requests posted during the current top-level call
  received,         \* number of responses received during that call
  bpc,              \* benchmark_inference: "idle", "start", "warmup", "loop",
                    \*   "timed", "report", "done", "raised"
  version, batch, repeat,   \* benchmark_inference's arguments
  instances,        \* benchmark_inference's list of instances
  i,                \* loop counter of the timed loop
  output,           \* class ids of the last timed request, or None
  timer,            \* "off", "running", "stopped"
  printed,          \* lines printed by benchmark_inference
  error,            \* exception that ended the current call ("" if none)
  served            \* versions the model server has loaded

predVars == << ppc, p_instances, p_version, res, class_ids, sent, received >>
benchVars == << bpc, version, batch, repeat, instances, i, output, timer, printed >>
convVars == << cpc, graph_filepath, conv_export_dir, graph_def >>
pipeVars == << run, cell, clock, model_dir, export_dir, serving, deleted,
               steps, reads, calls, saved_model_dir, bash_model_dir,
               cpc, graph_filepath, conv_export_dir, graph_def >>

(* ---------------- the model server's answers ---------------- *)
StatusCodes == {200, 404, 503}

\* one row of scores per instance; rows have ties and differ between instances
Row(k) == [c \in 1 .. NUM_CLASSES |-> ((c - 1) * (k + 1)) % RowMod]

Predictions(seed, n) == [j \in 1 .. n |-> Row((seed + j) % RowMod)]

NoResponse == [status |-> 0, predictions |-> <<>>]

\* the server answers with success only for a version it has loaded
CanAnswer(v, st) == st = 200 => v \in served

(* ---------------- predict ---------------- *)
\* mutant: only server errors raise
RaisesOnServerError(st) == st >= 500 /\ st < 600

\* res.raise_for_status()
RaisesForStatus(st) == st >= 400 /\ st < 600

RECURSIVE ArgMaxScan(_, _, _)
ArgMaxScan(item, k, best) ==
  IF k > Len(item) THEN best
  ELSE ArgMaxScan(item, k + 1, IF item[k] > item[best] THEN k ELSE best)

\* mutant: the index of the last maximal entry
ArgMaxLast(item) ==
  (CHOOSE k \in 1 .. Len(item) :
     /\ \A j \in 1 .. Len(item) : item[j] <= item[k]
     /\ \A j \in (k + 1) .. Len(item) : item[j] < item[k]) - 1

\* np.argmax: 0-based index of the first maximal entry
ArgMax(item) == ArgMaxScan(item, 2, 1) - 1

\* the URL and JSON payload of the request
Request(insts, v) == [version |-> v, body |-> insts, timed |-> (timer = "running")]

\* a caller enters predict(insts, v)
PredictCall(insts, v) ==
  /\ ppc' = "post"
  /\ p_instances' = insts
  /\ p_version' = v
  /\ class_ids' = None

\* requests.post(...) is issued
PredictPost ==
  /\ ppc = "post"
  /\ sent' = Append(sent, Request(p_instances, p_version))
  /\ ppc' = "wait"
  /\ UNCHANGED << p_instances, p_version, res, class_ids, received, error >>
  /\ UNCHANGED benchVars
  /\ UNCHANGED pipeVars
  /\ UNCHANGED served

\* the response arrives; raise_for_status, json, argmax
PredictResponse ==
  /\ ppc = "wait"
  /\ \E st \in StatusCodes, seed \in 0 .. (RowMod - 1) :
       /\ CanAnswer(p_version, st)
       /\ res' = [status |-> st,
                  predictions |-> IF st = 200
                                  THEN Predictions(seed, Len(p_instances))
                                  ELSE <<>>]
       /\ received' = received + 1
       /\ IF RaisesForStatus(st)
          THEN /\ ppc' = "raised"
               /\ error' = "HTTPError"
               /\ UNCHANGED class_ids
          ELSE /\ ppc' = "returned"
               /\ class_ids' = [k \in 1 .. Len(res'.predictions) |->
                                  ArgMax(res'.predictions[k])]
               /\ UNCHANGED error
  /\ UNCHANGED << p_instances, p_version, sent >>
  /\ UNCHANGED benchVars
  /\ UNCHANGED pipeVars
  /\ UNCHANGED served

(* ---------------- benchmark_inference ---------------- *)
Line(l, a, b) == [line |-> l, a |-> a, b |-> b]

Min(a, b) == IF a < b THEN a ELSE b

\* mutant: the slice keeps the whole list
TakeWhole(s, n) == s

\* instances[:n]
Take(s, n) == SubSeq(s, 1, Min(n, Len(s)))

\* a caller enters benchmark_inference(v, b, r)
BenchCall(v, b, r) ==
  /\ bpc' = "start"
  /\ version' = v
  /\ batch' = b
  /\ repeat' = r
  /\ instances' = <<>>
  /\ i' = 0
  /\ output' = None
  /\ timer' = "off"
  /\ printed' = <<>>
  /\ sent' = <<>>
  /\ received' = 0
  /\ res' = NoResponse
  /\ error' = ""

\* the instances are collected and the warm-up request is started
BenchBuild ==
  /\ bpc = "start"
  /\ IF batch > NumEval
     THEN /\ bpc' = "raised"
          /\ error' = "IndexError"
          /\ instances' = [j \in 1 .. NumEval |-> j - 1]
          /\ UNCHANGED << ppc, p_instances, p_version, class_ids >>
     ELSE /\ instances' = [j \in 1 .. batch |-> j - 1]
          /\ PredictCall(Take(instances', 1), version)
          /\ bpc' = "warmup"
          /\ UNCHANGED error
  /\ UNCHANGED << res, sent, received >>
  /\ UNCHANGED << version, batch, repeat, i, output, timer, printed >>
  /\ UNCHANGED pipeVars
  /\ UNCHANGED served

\* mutant: output starts as an empty list
OutputEmptyList == << >>

\* "output = None" before the timed loop
OutputBeforeLoop == None

\* the warm-up predict call is over
BenchWarmupReturn ==
  /\ bpc = "warmup"
  /\ ppc \in {"returned", "raised"}
  /\ ppc' = "idle"
  /\ IF ppc = "raised"
     THEN /\ bpc' = "raised"
          /\ UNCHANGED << printed, timer, output, i >>
     ELSE /\ printed' = printed \o << Line("warmup", NoValue, NoValue),
                                      Line("timer", NoValue, NoValue) >>
          /\ timer' = "running"
          /\ output' = OutputBeforeLoop
          /\ i' = 0
          /\ bpc' = "loop"
  /\ UNCHANGED << p_instances, p_version, res, class_ids, sent, received, error >>
  /\ UNCHANGED << version, batch, repeat, instances >>
  /\ UNCHANGED pipeVars
  /\ UNCHANGED served

\* head of "for i in range(repeat)": next timed request, or leave the loop
BenchLoop ==
  /\ bpc = "loop"
  /\ IF i < repeat
     THEN /\ PredictCall(instances, version)
          /\ bpc' = "timed"
          /\ UNCHANGED timer
     ELSE /\ timer' = "stopped"
          /\ bpc' = "report"
          /\ UNCHANGED << ppc, p_instances, p_version, class_ids >>
  /\ UNCHANGED << res, sent, received, error >>
  /\ UNCHANGED << version, batch, repeat, instances, i, output, printed >>
  /\ UNCHANGED pipeVars
  /\ UNCHANGED served

\* a timed predict call is over
BenchTimedReturn ==
  /\ bpc = "timed"
  /\ ppc \in {"returned", "raised"}
  /\ ppc' = "idle"
  /\ IF ppc = "raised"
     THEN /\ bpc' = "raised"
          /\ UNCHANGED << output, i >>
     ELSE /\ output' = class_ids
          /\ i' = i + 1
          /\ bpc' = "loop"
  /\ UNCHANGED << p_instances, p_version, res, class_ids, sent, received, error >>
  /\ UNCHANGED << version, batch, repeat, instances, timer, printed >>
  /\ UNCHANGED pipeVars
  /\ UNCHANGED served

\* index of output printed as "the last instance" (Python output[0])
ReportedIndex(out) == 1

\* the four report lines
BenchReport ==
  /\ bpc = "report"
  /\ LET elapsed == printed \o << Line("elapsed", NoValue, NoValue) >>
     IN
     IF output = None
     THEN \* len(None)
          /\ printed' = elapsed
          /\ bpc' = "raised"
          /\ error' = "TypeError"
     ELSE IF repeat = 0
     THEN /\ printed' = elapsed \o << Line("produced", Len(output), repeat) >>
          /\ bpc' = "raised"
          /\ error' = "ZeroDivisionError"
     ELSE IF Len(output) = 0
     THEN \* output[0] of an empty list
          /\ printed' = elapsed \o << Line("produced", Len(output), repeat),
                                     Line("average", NoValue, repeat) >>
          /\ bpc' = "raised"
          /\ error' = "IndexError"
     ELSE /\ printed' = elapsed \o << Line("produced", Len(output), repeat),
                                     Line("average", NoValue, repeat),
                                     Line("last", output[ReportedIndex(output)], NoValue) >>
          /\ bpc' = "done"
          /\ UNCHANGED error
  /\ UNCHANGED predVars
  /\ UNCHANGED << version, batch, repeat, instances, i, output, timer >>
  /\ UNCHANGED pipeVars
  /\ UNCHANGED served

(* ---------------- files under export_dir ---------------- *)
NoExport == [exists |-> FALSE, entries |-> {}]
NoModelDir == [exists |-> FALSE, ckpt |-> 0]
NoFile == File("", 0, <<>>, EmptyGraph, EmptySig)
NoPath == [dir |-> 0, name |-> ""]

\* os.path.join(saved_model_dir, name)
Path(d, n) == [dir |-> d, name |-> n]

ModelDirPath == << "/saved_models/mnist", 0 >>
ExportDirPath == << "/saved_models/mnist/export", 0 >>
ServingPath(k) == << "/serving/mnist", k >>

\* tf.gfile.DeleteRecursively(dir): nothing of the directory is left
DeleteRecursively(d, absent) == absent

\* mutant: an existing directory is left in place
KeepIfExists(d, absent) == d

\* "if tf.gfile.Exists(dir): tf.gfile.DeleteRecursively(dir)"
DeleteIfExists(d, absent) == IF d.exists THEN DeleteRecursively(d, absent) ELSE d

FilesAt(entries, d) ==
  UNION { e.files : e \in { x \in entries : x.name = d } }

\* the file at a path under export_dir, NoFile when there is none
ReadFile(entries, path) ==
  LET fs == { f \in FilesAt(entries, path.dir) : f.name = path.name }
  IN IF fs = {} THEN NoFile ELSE CHOOSE f \in fs : TRUE

\* a path below /serving/mnist/<k> has the directory id -k
ServingDirId(k) == 0 - k

UnderServing(path) == path.dir < 0

WriteFile(entries, d, file) ==
  { IF e.name = d THEN [e EXCEPT !.files = CopyInto(@, {file})] ELSE e : e \in entries }

ReadRec(st, n, f) ==
  [step |-> st, name |-> n, found |-> (f # NoFile), run |-> f.run, ops |-> f.ops]

(* ---------------- the external graph tools ---------------- *)
\* freeze_graph: variables become constants of the graph
FreezeGraphTool(g) ==
  { IF n.op = "VariableV2" THEN Node(n.name, "Const") ELSE n : n \in g }

\* one transform of the Graph Transform Tool
ApplyTransform(g, t) ==
  IF t = "remove_nodes(op=Identity)" THEN { n \in g : n.op # "Identity" }
  ELSE IF t = "quantize_weights"
       THEN { IF n.op = "Const" THEN Node(n.name, "QuantizedConst") ELSE n : n \in g }
  ELSE g

RECURSIVE TransformGraph(_, _)
TransformGraph(g, ts) ==
  IF ts = <<>> THEN g ELSE TransformGraph(ApplyTransform(g, Head(ts)), Tail(ts))

transforms ==
  << "remove_nodes(op=Identity)",
     "fold_constants(ignore_errors=true)",
     "fold_batch_norms",
     "fuse_resize_pad_and_conv",
     "quantize_weights",
     "quantize_nodes",
     "merge_duplicate_nodes",
     "strip_unused_nodes",
     "sort_by_execution_order" >>

ToolCall(t, ins, outs, ts) ==
  [tool |-> t, input_names |-> ins, output_names |-> outs, transforms |-> ts]

\* mutant: the output node is taken from the graph (its Softmax or BiasAdd nodes)
FreezeOutputNodesFromGraph(g) ==
  LET outs == { n.name : n \in { m \in g : m.op \in {"Softmax", "BiasAdd"} } }
  IN << CHOOSE n \in outs : \A m \in outs : Len(n) <= Len(m) >>

\* output_node_names of freeze_graph
FreezeOutputNodes(g) == << "softmax/Softmax" >>

\* input_names and output_names of optimize_graph
OptimizeInputNames(g) == <<>>
OptimizeOutputNames(g) == << "softmax/Softmax" >>

(* ---------------- convert_graph_def_to_saved_model ---------------- *)
\* mutant: the input name is hardcoded
ConvertInputsFixed(g) ==
  { << "serving_input_image", Tensor("serving_input_image", 0) >> }

\* inputs= of simple_save: one entry per Placeholder node of the graph
ConvertInputs(g) ==
  { << n.name, Tensor(n.name, 0) >> : n \in { m \in g : m.op = "Placeholder" } }

\* outputs= of simple_save
ConvertOutputs(g) == { << "softmax", Tensor("softmax/Softmax", 0) >> }

ConvertSig(g) == [inputs |-> ConvertInputs(g), outputs |-> ConvertOutputs(g)]

\* session.graph.get_tensor_by_name finds the tensor of an existing node only
HasTensor(g, t) == \E n \in g : n.name = t[1]

\* a caller enters convert_graph_def_to_saved_model(path, "/serving/mnist/<k>")
ConvertCall(path, k) ==
  /\ cpc' = "delete"
  /\ graph_filepath' = path
  /\ conv_export_dir' = k
  /\ graph_def' = NoFile

\* if tf.gfile.Exists(export_dir): tf.gfile.DeleteRecursively(export_dir)
ConvertDelete ==
  /\ cpc = "delete"
  /\ serving' = [serving EXCEPT ![conv_export_dir] = DeleteIfExists(@, NoDir)]
  /\ deleted' = IF serving[conv_export_dir].exists
                THEN deleted \cup {ServingPath(conv_export_dir)} ELSE deleted
  /\ cpc' = "read"
  /\ UNCHANGED << run, cell, clock, model_dir, export_dir, steps, reads, calls,
                  saved_model_dir, bash_model_dir,
                  graph_filepath, conv_export_dir, graph_def >>
  /\ UNCHANGED << predVars, benchVars, error >>
  /\ UNCHANGED served

\* the file at graph_filepath, below export_dir or below /serving/mnist/<k>
ReadPath(path) ==
  IF UnderServing(path)
  THEN LET fs == { f \in serving[0 - path.dir].files : f.name = path.name }
       IN IF fs = {} THEN NoFile ELSE CHOOSE f \in fs : TRUE
  ELSE ReadFile(export_dir.entries, path)

\* graph_def = get_graph_def_from_file(graph_filepath)
ConvertRead ==
  /\ cpc = "read"
  /\ LET f == ReadPath(graph_filepath)
     IN /\ graph_def' = f
        /\ reads' = Append(reads, ReadRec("convert", graph_filepath.name, f))
        /\ IF f = NoFile
           THEN cpc' = "raised" /\ error' = "NotFoundError"
           ELSE cpc' = "save" /\ UNCHANGED error
  /\ UNCHANGED << run, cell, clock, model_dir, export_dir, serving, deleted,
                  steps, calls, saved_model_dir, bash_model_dir,
                  graph_filepath, conv_export_dir >>
  /\ UNCHANGED << predVars, benchVars >>
  /\ UNCHANGED served

\* import_graph_def and simple_save into export_dir
ConvertSave ==
  /\ cpc = "save"
  /\ LET g == graph_def.graph
         sig == ConvertSig(g)
     IN IF \E o \in sig.outputs : ~ HasTensor(g, o[2])
        THEN /\ cpc' = "raised"
             /\ error' = "KeyError"
             /\ UNCHANGED serving
        ELSE /\ serving' = [serving EXCEPT ![conv_export_dir] =
                   Dir(CopyInto(@.files,
                       SavedModelFiles(SimpleSaveFiles, graph_def.run,
                                       Append(graph_def.ops, "convert"), g, sig)))]
             /\ cpc' = "done"
             /\ UNCHANGED error
  /\ UNCHANGED << run, cell, clock, model_dir, export_dir, deleted, steps, reads,
                  calls, saved_model_dir, bash_model_dir,
                  graph_filepath, conv_export_dir, graph_def >>
  /\ UNCHANGED << predVars, benchVars >>
  /\ UNCHANGED served

(* ---------------- the cells of the notebook ---------------- *)
Quiet == ppc = "idle" /\ bpc = "idle" /\ cpc = "idle"

\* a cell ends: the next cell runs, or the run stops at the exception
Advance(ok) == cell' = IF ok THEN NextCell(cell) ELSE "failed"

\* the notebook is run from the top in a fresh kernel; the file system stays
RunStart ==
  /\ cell \in {"idle", "done", "failed"}
  /\ run < MaxRuns
  /\ run' = run + 1
  /\ cell' = CellOrder[1]
  /\ deleted' = {}
  /\ steps' = <<>>
  /\ reads' = <<>>
  /\ calls' = <<>>
  /\ saved_model_dir' = 0
  /\ bash_model_dir' = 0
  /\ cpc' = "idle" /\ graph_filepath' = NoPath /\ conv_export_dir' = 1
  /\ graph_def' = NoFile
  /\ ppc' = "idle" /\ p_instances' = <<>> /\ p_version' = DefaultVersion
  /\ res' = NoResponse /\ class_ids' = None /\ sent' = <<>> /\ received' = 0
  /\ bpc' = "idle" /\ version' = DefaultVersion /\ batch' = DefaultBatch
  /\ repeat' = DefaultRepeat /\ instances' = <<>> /\ i' = 0 /\ output' = None
  /\ timer' = "off" /\ printed' = <<>> /\ error' = ""
  /\ UNCHANGED << clock, model_dir, export_dir, serving >>
  /\ UNCHANGED served

\* tf.keras.datasets.mnist.load_data()
CellLoad ==
  /\ cell = "load" /\ Quiet
  /\ Advance(TRUE)
  /\ deleted' = {}
  /\ UNCHANGED << run, clock, model_dir, export_dir, serving, steps, reads, calls,
                  saved_model_dir, bash_model_dir, convVars >>
  /\ UNCHANGED << predVars, benchVars, error >>
  /\ UNCHANGED served

\* model_dir is removed when it exists, made again, and the estimator is trained
CellTrain ==
  /\ cell = "train" /\ Quiet
  /\ LET base == DeleteIfExists(model_dir, NoModelDir)
         sub == IF model_dir.exists THEN DeleteRecursively(export_dir, NoExport)
                ELSE export_dir
     IN /\ model_dir' = [base EXCEPT !.exists = TRUE, !.ckpt = run]
        /\ export_dir' = sub
  /\ deleted' = IF model_dir.exists THEN {ModelDirPath} ELSE {}
  /\ steps' = Append(steps, "train")
  /\ Advance(TRUE)
  /\ UNCHANGED << run, clock, serving, reads, calls, saved_model_dir,
                  bash_model_dir, convVars >>
  /\ UNCHANGED << predVars, benchVars, error >>
  /\ UNCHANGED served

\* export_dir is removed when it exists; export_savedmodel writes
\* export_dir/<timestamp>
CellExport ==
  /\ cell = "export" /\ Quiet
  /\ LET base == DeleteIfExists(export_dir, NoExport)
         ts == clock + 1
         new == [name |-> ts,
                 files |-> SavedModelFiles(ExportFiles, model_dir.ckpt, << "export" >>,
                                           ExportedGraph, ExportedSig)]
     IN /\ clock' = ts
        /\ export_dir' = [exists |-> TRUE, entries |-> base.entries \cup {new}]
  /\ deleted' = IF export_dir.exists THEN {ExportDirPath} ELSE {}
  /\ reads' = Append(reads, [step |-> "export", name |-> "checkpoint",
                             found |-> model_dir.exists, run |-> model_dir.ckpt,
                             ops |-> << >>])
  /\ steps' = Append(steps, "export")
  /\ Advance(model_dir.exists)
  /\ UNCHANGED << run, model_dir, serving, calls, saved_model_dir,
                  bash_model_dir, convVars >>
  /\ UNCHANGED << predVars, benchVars, error >>
  /\ UNCHANGED served

\* "ls ${saved_models_base} | tail -n 1": the last entry of the sorted listing
LastListed(entries) == SetMax({ e.name : e \in entries })

\* bash cell: list the exported model and show it with saved_model_cli
CellInspect ==
  /\ cell = "inspect" /\ Quiet
  /\ Advance(export_dir.entries # {})
  /\ deleted' = {}
  /\ UNCHANGED << run, clock, model_dir, export_dir, serving, steps, reads, calls,
                  saved_model_dir, bash_model_dir, convVars >>
  /\ UNCHANGED << predVars, benchVars, error >>
  /\ UNCHANGED served

\* bash cell: mkdir -p /serving/mnist/1; cp -r ${saved_model_dir}/* /serving/mnist/1
CellCopy ==
  /\ cell = "copy" /\ Quiet
  /\ deleted' = {}
  /\ IF export_dir.entries = {}
     THEN /\ Advance(FALSE)
          /\ serving' = [serving EXCEPT ![1] = Dir(@.files)]
          /\ UNCHANGED << bash_model_dir, steps, reads >>
     ELSE LET d == LastListed(export_dir.entries)
              src == FilesAt(export_dir.entries, d)
          IN /\ bash_model_dir' = d
             /\ serving' = [serving EXCEPT ![1] = Dir(CopyInto(@.files, src))]
             /\ reads' = Append(reads,
                   ReadRec("copy", "saved_model.pb",
                           ReadFile(export_dir.entries, Path(d, "saved_model.pb"))))
             /\ steps' = Append(steps, "copy")
             /\ Advance(TRUE)
  /\ UNCHANGED << run, clock, model_dir, export_dir, calls, saved_model_dir, convVars >>
  /\ UNCHANGED << predVars, benchVars, error >>
  /\ UNCHANGED served

\* !curl http://localhost:8501/v1/models/mnist : the answer is only displayed
CellCurl ==
  /\ cell \in {"curl1", "curl2"} /\ Quiet
  /\ Advance(TRUE)
  /\ deleted' = {}
  /\ UNCHANGED << run, clock, model_dir, export_dir, serving, steps, reads, calls,
                  saved_model_dir, bash_model_dir, convVars >>
  /\ UNCHANGED << predVars, benchVars, error >>
  /\ UNCHANGED served

\* [f for f in os.listdir(export_dir) if f.isdigit()]: listdir's order is arbitrary
DigitEntries(entries) == { e.name : e \in entries }

\* saved_model_dir = os.path.join(export_dir, [...][0]); describe_graph; get_size
CellDescribe ==
  /\ cell = "describe" /\ Quiet
  /\ deleted' = {}
  /\ IF DigitEntries(export_dir.entries) = {}
     THEN /\ Advance(FALSE)
          /\ UNCHANGED << saved_model_dir, reads >>
     ELSE \E d \in DigitEntries(export_dir.entries) :
            /\ saved_model_dir' = d
            /\ reads' = Append(reads,
                  ReadRec("describe", "saved_model.pb",
                          ReadFile(export_dir.entries, Path(d, "saved_model.pb"))))
            /\ Advance(TRUE)
  /\ UNCHANGED << run, clock, model_dir, export_dir, serving, steps, calls,
                  bash_model_dir, convVars >>
  /\ UNCHANGED << predVars, benchVars, error >>
  /\ UNCHANGED served

\* print(predict([eval_data[0].tolist()])): the call is made
CellPredict ==
  /\ cell = "predict1" /\ Quiet
  /\ PredictCall(<< 0 >>, DefaultVersion)
  /\ sent' = <<>> /\ received' = 0 /\ res' = NoResponse /\ error' = ""
  /\ deleted' = {}
  /\ UNCHANGED << run, cell, clock, model_dir, export_dir, serving, steps, reads,
                  calls, saved_model_dir, bash_model_dir, convVars >>
  /\ UNCHANGED benchVars
  /\ UNCHANGED served

\* ... and has returned or raised
CellPredictReturn ==
  /\ cell = "predict1" /\ bpc = "idle"
  /\ ppc \in {"returned", "raised"}
  /\ ppc' = "idle"
  /\ Advance(ppc = "returned")
  /\ UNCHANGED << p_instances, p_version, res, class_ids, sent, received, error >>
  /\ UNCHANGED << run, clock, model_dir, export_dir, serving, deleted, steps, reads,
                  calls, saved_model_dir, bash_model_dir, convVars >>
  /\ UNCHANGED benchVars
  /\ UNCHANGED served

\* the version each benchmark cell passes (the first uses the default)
BenchVersion(c) ==
  IF c = "bench1" THEN DefaultVersion ELSE IF c = "bench2" THEN 2 ELSE 3

\* benchmark_inference(), benchmark_inference(version=2), benchmark_inference(version=3)
CellBench ==
  /\ cell \in {"bench1", "bench2", "bench3"} /\ Quiet
  /\ BenchCall(BenchVersion(cell), DefaultBatch, DefaultRepeat)
  /\ deleted' = {}
  /\ UNCHANGED << ppc, p_instances, p_version, class_ids >>
  /\ UNCHANGED << run, cell, clock, model_dir, export_dir, serving, steps, reads,
                  calls, saved_model_dir, bash_model_dir, convVars >>
  /\ UNCHANGED served

CellBenchReturn ==
  /\ cell \in {"bench1", "bench2", "bench3"}
  /\ bpc \in {"done", "raised"}
  /\ bpc' = "idle"
  /\ Advance(bpc = "done")
  /\ UNCHANGED << version, batch, repeat, instances, i, output, timer, printed >>
  /\ UNCHANGED << predVars, error >>
  /\ UNCHANGED << run, clock, model_dir, export_dir, serving, deleted, steps, reads,
                  calls, saved_model_dir, bash_model_dir, convVars >>
  /\ UNCHANGED served

\* freeze_graph(saved_model_dir), then the frozen file is read back and described
CellFreeze ==
  /\ cell = "freeze" /\ Quiet
  /\ deleted' = {}
  /\ LET src == ReadFile(export_dir.entries, Path(saved_model_dir, "saved_model.pb"))
         frozen == File("freezed_model.pb", src.run, Append(src.ops, "freeze"),
                        FreezeGraphTool(src.graph), EmptySig)
     IN /\ reads' = Append(reads, ReadRec("freeze", "saved_model.pb", src))
        /\ IF src = NoFile
           THEN /\ Advance(FALSE)
                /\ UNCHANGED << export_dir, calls, steps >>
           ELSE /\ export_dir' = [export_dir EXCEPT
                      !.entries = WriteFile(@, saved_model_dir, frozen)]
                /\ calls' = Append(calls, ToolCall("freeze_graph", << >>,
                                                   FreezeOutputNodes(src.graph), << >>))
                /\ steps' = Append(steps, "freeze")
                /\ Advance(TRUE)
  /\ UNCHANGED << run, clock, model_dir, serving, saved_model_dir,
                  bash_model_dir, convVars >>
  /\ UNCHANGED << predVars, benchVars, error >>
  /\ UNCHANGED served

\* mutant: the frozen graph is converted a second time
ConvertSourceFrozen(c) == Path(saved_model_dir, "freezed_model.pb")

\* the graph file and the target of each conversion cell
ConvertSource(c) ==
  IF c = "convert2" THEN Path(saved_model_dir, "freezed_model.pb")
  ELSE Path(saved_model_dir, "optimised_model.pb")

ConvertTarget(c) == IF c = "convert2" THEN 2 ELSE 3

\* convert_graph_def_to_saved_model(freezed_filepath, "/serving/mnist/2") and
\* convert_graph_def_to_saved_model(optimised_filepath, "/serving/mnist/3")
CellConvert ==
  /\ cell \in {"convert2", "convert3"} /\ Quiet
  /\ ConvertCall(ConvertSource(cell), ConvertTarget(cell))
  /\ deleted' = {}
  /\ error' = ""
  /\ UNCHANGED << run, cell, clock, model_dir, export_dir, serving, steps, reads,
                  calls, saved_model_dir, bash_model_dir >>
  /\ UNCHANGED << predVars, benchVars >>
  /\ UNCHANGED served

\* the conversion has returned (get_size follows) or raised
CellConvertReturn ==
  /\ cell \in {"convert2", "convert3"}
  /\ cpc \in {"done", "raised"}
  /\ cpc' = "idle"
  /\ steps' = IF cpc = "done" THEN Append(steps, cell) ELSE steps
  /\ Advance(cpc = "done")
  /\ UNCHANGED << run, clock, model_dir, export_dir, serving, deleted, reads, calls,
                  saved_model_dir, bash_model_dir,
                  graph_filepath, conv_export_dir, graph_def >>
  /\ UNCHANGED << predVars, benchVars, error >>
  /\ UNCHANGED served

\* optimize_graph(saved_model_dir, 'freezed_model.pb', transforms)
CellOptimize ==
  /\ cell = "optimize" /\ Quiet
  /\ deleted' = {}
  /\ LET src == ReadFile(export_dir.entries, Path(saved_model_dir, "freezed_model.pb"))
         opt == File("optimised_model.pb", src.run, Append(src.ops, "optimize"),
                     TransformGraph(src.graph, transforms), EmptySig)
     IN /\ reads' = Append(reads, ReadRec("optimize", "freezed_model.pb", src))
        /\ IF src = NoFile
           THEN /\ Advance(FALSE)
                /\ UNCHANGED << export_dir, calls, steps >>
           ELSE /\ export_dir' = [export_dir EXCEPT
                      !.entries = WriteFile(@, saved_model_dir, opt)]
                /\ calls' = Append(calls, ToolCall("TransformGraph",
                                                   OptimizeInputNames(src.graph),
                                                   OptimizeOutputNames(src.graph),
                                                   transforms))
                /\ steps' = Append(steps, "optimize")
                /\ Advance(TRUE)
  /\ UNCHANGED << run, clock, model_dir, serving, saved_model_dir,
                  bash_model_dir, convVars >>
  /\ UNCHANGED << predVars, benchVars, error >>
  /\ UNCHANGED served

\* describe_graph(get_graph_def_from_file(optimised_filepath))
CellDescribeOpt ==
  /\ cell = "describe_opt" /\ Quiet
  /\ deleted' = {}
  /\ LET f == ReadFile(export_dir.entries, Path(saved_model_dir, "optimised_model.pb"))
     IN /\ reads' = Append(reads, ReadRec("describe_opt", "optimised_model.pb", f))
        /\ Advance(f # NoFile)
  /\ UNCHANGED << run, clock, model_dir, export_dir, serving, steps, calls,
                  saved_model_dir, bash_model_dir, convVars >>
  /\ UNCHANGED << predVars, benchVars, error >>
  /\ UNCHANGED served

(* ---------------- the model server, a separate process ---------------- *)
\* tensorflow_model_server watches /serving/mnist: it loads a version whose
\* directory holds a saved_model.pb and unloads one whose directory is gone
ServerPoll ==
  /\ \E k \in Versions :
       IF k \in served
       THEN /\ ~ serving[k].exists
            /\ served' = served \ {k}
       ELSE /\ \E f \in serving[k].files : f.name = "saved_model.pb"
            /\ served' = served \cup {k}
  /\ UNCHANGED pipeVars
  /\ UNCHANGED << predVars, benchVars, error >>

(* ---------------- the notebook, run MaxRuns times ---------------- *)
vars == << run, cell, clock, model_dir, export_dir, serving, deleted, steps, reads,
           calls, saved_model_dir, bash_model_dir,
           cpc, graph_filepath, conv_export_dir, graph_def,
           ppc, p_instances, p_version, res, class_ids, sent, received,
           bpc, version, batch, repeat, instances, i, output, timer, printed, error,
           served >>

\* python state of a fresh kernel
InitPython ==
  /\ deleted = {} /\ steps = <<>> /\ reads = <<>> /\ calls = <<>>
  /\ saved_model_dir = 0 /\ bash_model_dir = 0
  /\ cpc = "idle" /\ graph_filepath = NoPath /\ conv_export_dir = 1
  /\ graph_def = NoFile
  /\ ppc = "idle" /\ p_instances = <<>> /\ p_version = DefaultVersion
  /\ res = NoResponse /\ class_ids = None /\ sent = <<>> /\ received = 0
  /\ bpc = "idle" /\ version = DefaultVersion /\ batch = DefaultBatch
  /\ repeat = DefaultRepeat /\ instances = <<>> /\ i = 0 /\ output = None
  /\ timer = "off" /\ printed = <<>> /\ error = ""

\* a fresh container: nothing under /saved_models/mnist or /serving/mnist
Init ==
  /\ run = 0 /\ cell = "idle" /\ clock = 0
  /\ served = {}
  /\ model_dir = NoModelDir
  /\ export_dir = NoExport
  /\ serving = [k \in Versions |-> NoDir]
  /\ InitPython

Next ==
  \/ RunStart
  \/ CellLoad
  \/ CellTrain
  \/ CellExport
  \/ CellInspect
  \/ CellCopy
  \/ CellCurl
  \/ CellDescribe
  \/ CellPredict
  \/ CellPredictReturn
  \/ CellBench
  \/ CellBenchReturn
  \/ CellFreeze
  \/ CellConvert
  \/ CellConvertReturn
  \/ CellOptimize
  \/ CellDescribeOpt
  \/ PredictPost
  \/ PredictResponse
  \/ BenchBuild
  \/ BenchWarmupReturn
  \/ BenchLoop
  \/ BenchTimedReturn
  \/ BenchReport
  \/ ConvertDelete
  \/ ConvertRead
  \/ ConvertSave
  \/ ServerPoll

Spec == Init /\ [][Next]_vars

(* ---------------- benchmark_inference called with any arguments ---------------- *)
BatchArgs == (0 .. MaxBatchArg) \cup {NumEval, NumEval + 1}
RepeatArgs == 0 .. MaxRepeatArg

InitBench ==
  /\ run = 1 /\ cell = "direct" /\ clock = 0
  /\ served \in SUBSET Versions
  /\ model_dir = NoModelDir
  /\ export_dir = NoExport
  /\ serving = [k \in Versions |-> NoDir]
  /\ deleted = {} /\ steps = <<>> /\ reads = <<>> /\ calls = <<>>
  /\ saved_model_dir = 0 /\ bash_model_dir = 0
  /\ cpc = "idle" /\ graph_filepath = NoPath /\ conv_export_dir = 1
  /\ graph_def = NoFile
  /\ ppc = "idle" /\ p_instances = <<>> /\ p_version = DefaultVersion
  /\ res = NoResponse /\ class_ids = None /\ sent = <<>> /\ received = 0
  /\ bpc = "start"
  /\ version \in Versions
  /\ batch \in BatchArgs
  /\ repeat \in RepeatArgs
  /\ instances = <<>> /\ i = 0 /\ output = None
  /\ timer = "off" /\ printed = <<>> /\ error = ""

NextBench ==
  \/ PredictPost
  \/ PredictResponse
  \/ BenchBuild
  \/ BenchWarmupReturn
  \/ BenchLoop
  \/ BenchTimedReturn
  \/ BenchReport

SpecBench == InitBench /\ [][NextBench]_vars

(* ------- convert_graph_def_to_saved_model called on any graph file ------- *)
NodeUniverse ==
  { Node("serving_input_image", "Placeholder"),
    Node("other_input", "Placeholder"),
    Node("logits/kernel", "Const"),
    Node("softmax/Softmax", "Softmax") }

InputGraphs == SUBSET NodeUniverse

\* what an earlier conversion left at the target
OldServing ==
  Dir(SavedModelFiles(SimpleSaveFiles, 0, << "export", "freeze", "convert" >>,
                      FreezeGraphTool(ExportedGraph),
                      [inputs |-> { << "serving_input_image",
                                       Tensor("serving_input_image", 0) >> },
                       outputs |-> { << "softmax", Tensor("softmax/Softmax", 0) >> }]))

InitConvert ==
  /\ run = 1 /\ cell = "direct" /\ clock = 1
  /\ served = {}
  /\ model_dir = [exists |-> TRUE, ckpt |-> 1]
  /\ \E fs \in { {} } \cup { { File("graph.pb", 1, << "input" >>, g, EmptySig) } :
                             g \in InputGraphs } :
       export_dir = [exists |-> TRUE, entries |-> { [name |-> 1, files |-> fs] }]
  /\ \E k \in Versions, old \in {NoDir, OldServing} :
       /\ conv_export_dir = k
       /\ serving = [v \in Versions |-> IF v = k THEN old ELSE NoDir]
       /\ graph_filepath \in { Path(1, "graph.pb"),
                                Path(ServingDirId(k), "saved_model.pb") }
  /\ deleted = {} /\ steps = <<>> /\ reads = <<>> /\ calls = <<>>
  /\ saved_model_dir = 1 /\ bash_model_dir = 0
  /\ cpc = "delete"
  /\ graph_def = NoFile
  /\ ppc = "idle" /\ p_instances = <<>> /\ p_version = DefaultVersion
  /\ res = NoResponse /\ class_ids = None /\ sent = <<>> /\ received = 0
  /\ bpc = "idle" /\ version = DefaultVersion /\ batch = DefaultBatch
  /\ repeat = DefaultRepeat /\ instances = <<>> /\ i = 0 /\ output = None
  /\ timer = "off" /\ printed = <<>> /\ error = ""

NextConvert ==
  \/ ConvertDelete
  \/ ConvertRead
  \/ ConvertSave

SpecConvert == InitConvert /\ [][NextConvert]_vars

(* ======================= properties of the pipeline ======================= *)
Range(s) == { s[k] : k \in 1 .. Len(s) }

PipelineSteps ==
  << "train", "export", "copy", "freeze", "convert2", "optimize", "convert3" >>

\* the step that writes an artifact
Producer(name) ==
  IF name = "checkpoint" THEN "train"
  ELSE IF name = "saved_model.pb" THEN "export"
  ELSE IF name = "freezed_model.pb" THEN "freeze"
  ELSE "optimize"

StepsBefore(c) == SelectSeq(PipelineSteps, LAMBDA s : CellIndex(s) < CellIndex(c))

IsPrefix(s, t) == Len(s) <= Len(t) /\ s = SubSeq(t, 1, Len(s))

\* C1: the pipeline is one linear sequence train, export, copy, freeze,
\* convert to /2, optimize, convert to /3: when a cell is about to run (or is
\* running) exactly the steps of the earlier cells have completed, in that
\* order, one function is active at a time, and every artifact a step read
\* was there, was written in this run, and its producing step had completed.
C1_LinearPipeline ==
  /\ cell \in Range(CellOrder) => steps = StepsBefore(cell)
  /\ cell = "done" => steps = PipelineSteps
  /\ cell = "failed" => IsPrefix(steps, PipelineSteps)
  /\ cpc # "idle" => cell \in {"convert2", "convert3"} /\ bpc = "idle" /\ ppc = "idle"
  /\ bpc # "idle" => cell \in {"bench1", "bench2", "bench3"}
  /\ ppc # "idle" => cell \in {"predict1", "bench1", "bench2", "bench3"}
  /\ \A k \in 1 .. Len(reads) :
       /\ reads[k].found
       /\ reads[k].run = run
       /\ Producer(reads[k].name) \in Range(steps)

C1_Witness ==
  /\ cell = "done" /\ run = 2
  /\ steps = PipelineSteps
  /\ \E k \in 1 .. Len(reads) : reads[k].name = "optimised_model.pb"

\* C2: every write of a model directory first deletes a directory that is
\* already at the target, and after the write the directory holds only what
\* this write produced (model_dir, export_dir, /serving/mnist/1, and the
\* target of convert_graph_def_to_saved_model).
C2_DeleteBeforeWrite ==
  [][ /\ (cell = "train" /\ cell' = NextCell("train") /\ model_dir.exists)
           => /\ ModelDirPath \in deleted'
              /\ model_dir'.ckpt = run /\ export_dir' = NoExport
      /\ (cell = "export" /\ cell' = NextCell("export") /\ export_dir.exists)
           => /\ ExportDirPath \in deleted'
              /\ \A e \in export_dir'.entries : \A f \in e.files : f.run = run
      /\ (cell = "copy" /\ cell' = NextCell("copy") /\ serving[1].exists)
           => /\ ServingPath(1) \in deleted'
              /\ \A f \in serving'[1].files : f.run = run
      /\ (cpc = "delete" /\ cpc' = "read" /\ serving[conv_export_dir].exists)
           => /\ ServingPath(conv_export_dir) \in deleted'
              /\ ~ serving'[conv_export_dir].exists
      /\ (cpc = "save" /\ cpc' = "done")
           => \A f \in serving'[conv_export_dir].files : f.run = run
    ]_vars

ExportedFilesOf(d) == { f \in FilesAt(export_dir.entries, d) : f.ops = << "export" >> }

ServedGraphFile(k) ==
  CHOOSE f \in serving[k].files : f.name = "saved_model.pb"

CompleteSavedModel(fs) ==
  /\ { f.name : f \in fs } = {"saved_model.pb", "variables"}
  /\ \A f \in fs : f.run = run

\* C6: at the end of a run /serving/mnist/1 holds a copy of the model the
\* export step wrote, /serving/mnist/2 the conversion of the frozen graph of
\* that same exported model and /serving/mnist/3 the conversion of the
\* optimised graph obtained from that frozen graph; benchmark_inference for
\* version k runs only when /serving/mnist/k has been written completely.
C6_Lineage ==
  /\ cell = "done" =>
       LET frozen == ReadFile(export_dir.entries, Path(saved_model_dir, "freezed_model.pb"))
           optimised == ReadFile(export_dir.entries, Path(saved_model_dir, "optimised_model.pb"))
           exported == ReadFile(export_dir.entries, Path(saved_model_dir, "saved_model.pb"))
       IN /\ bash_model_dir = saved_model_dir
          /\ export_dir.entries = { e \in export_dir.entries : e.name = saved_model_dir }
          /\ exported.run = run /\ exported.ops = << "export" >>
          /\ serving[1].files = ExportedFilesOf(saved_model_dir)
          /\ frozen.run = run /\ frozen.ops = << "export", "freeze" >>
          /\ CompleteSavedModel(serving[2].files)
          /\ ServedGraphFile(2).ops = << "export", "freeze", "convert" >>
          /\ ServedGraphFile(2).graph = frozen.graph
          /\ optimised.run = run
          /\ optimised.ops = << "export", "freeze", "optimize" >>
          /\ CompleteSavedModel(serving[3].files)
          /\ ServedGraphFile(3).ops = << "export", "freeze", "optimize", "convert" >>
          /\ ServedGraphFile(3).graph = optimised.graph
  /\ \A k \in Versions :
       (bpc # "idle" /\ version = k /\ cell \in {"bench1", "bench2", "bench3"}) =>
          /\ serving[k].exists
          /\ CompleteSavedModel(serving[k].files)
          /\ (IF k = 1 THEN "copy" ELSE IF k = 2 THEN "convert2" ELSE "convert3")
                \in Range(steps)

C6_Witness ==
  /\ cell = "done" /\ run = 2
  /\ serving[3].exists /\ version = 3 /\ printed # <<>>

\* C9: freeze, optimize and convert all name the one output node
\* softmax/Softmax: every freeze_graph call has exactly that output node,
\* every TransformGraph call has no input names, exactly that output name and
\* the nine transforms in the listed order, and every converted SavedModel
\* binds its only output to softmax/Softmax:0.
C9_FixedOutputNode ==
  /\ \A k \in 1 .. Len(calls) :
       /\ calls[k].tool = "freeze_graph" =>
            calls[k].output_names = << "softmax/Softmax" >>
       /\ calls[k].tool = "TransformGraph" =>
            /\ calls[k].input_names = << >>
            /\ calls[k].output_names = << "softmax/Softmax" >>
            /\ Len(calls[k].transforms) = 9
            /\ calls[k].transforms =
                 << "remove_nodes(op=Identity)", "fold_constants(ignore_errors=true)",
                    "fold_batch_norms", "fuse_resize_pad_and_conv", "quantize_weights",
                    "quantize_nodes", "merge_duplicate_nodes", "strip_unused_nodes",
                    "sort_by_execution_order" >>
  /\ \A k \in {2, 3} : \A f \in serving[k].files :
       f.name = "saved_model.pb" =>
          f.sig.outputs = { << "softmax", << "softmax/Softmax", 0 >> >> }

C9_Witness ==
  /\ cell = "done"
  /\ Len(calls) = 2
  /\ calls[1].tool = "freeze_graph" /\ calls[2].tool = "TransformGraph"
  /\ serving[2].exists /\ serving[3].exists

(* ================== properties of benchmark_inference ================== *)
FirstImages(n) == [j \in 1 .. n |-> j - 1]

ReportLines == {"elapsed", "produced", "average", "last"}

\* the call is over and no request failed
OverWithoutHttpError == bpc \in {"done", "raised"} /\ error # "HTTPError"

Sequential ==
  /\ Len(sent) - received \in {0, 1}
  /\ (Len(sent) - received = 1) <=> (ppc = "wait")

TimedRequests ==
  \A k \in 2 .. Len(sent) : sent[k].timed /\ sent[k].body = FirstImages(batch)

\* C3 as stated: a call in which every request succeeds issues exactly
\* repeat + 1 requests to the given version, one after another, the first a
\* warm-up with exactly 1 instance sent before the timer starts, the others
\* timed and carrying the first batch evaluation images.
C3_Original ==
  /\ Sequential
  /\ \A k \in 1 .. Len(sent) : sent[k].version = version
  /\ Len(sent) >= 1 => (Len(sent[1].body) = 1 /\ ~ sent[1].timed)
  /\ TimedRequests
  /\ Len(sent) <= repeat + 1
  /\ OverWithoutHttpError => Len(sent) = repeat + 1

\* C3 (amended): as C3, for batch <= number of evaluation images, with the
\* warm-up carrying the first min(1, batch) instances (one when batch >= 1,
\* none when batch = 0); with a larger batch no request is sent.
C3_RequestSequence ==
  /\ Sequential
  /\ \A k \in 1 .. Len(sent) : sent[k].version = version
  /\ Len(sent) >= 1 =>
       /\ sent[1].body = FirstImages(IF batch >= 1 THEN 1 ELSE 0)
       /\ ~ sent[1].timed
  /\ TimedRequests
  /\ Len(sent) <= repeat + 1
  /\ (OverWithoutHttpError /\ batch <= NumEval) => Len(sent) = repeat + 1
  /\ batch > NumEval => sent = << >>

C3_Witness ==
  /\ bpc = "done" /\ batch = 2 /\ repeat = 2
  /\ Len(sent) = 3 /\ received = 3

\* C4: a non-success status makes predict raise without class ids; in
\* benchmark_inference that failure ends the call: the failed request is the
\* last one sent, nothing is sent or printed afterwards, and no elapsed time
\* or latency report exists.
C4_FailureEndsCall ==
  /\ [](res.status >= 400 =>
          /\ error = "HTTPError"
          /\ class_ids = None
          /\ ppc \in {"raised", "idle"}
          /\ bpc \in {"warmup", "timed", "raised"}
          /\ received = Len(sent)
          /\ timer # "stopped"
          /\ \A k \in 1 .. Len(printed) : printed[k].line \notin ReportLines)
  /\ [][error = "HTTPError" =>
          /\ sent' = sent
          /\ printed' = printed
          /\ output' = output
          /\ bpc' = "raised"]_vars

C4_Witness ==
  /\ bpc = "raised" /\ error = "HTTPError"
  /\ repeat = 2 /\ Len(sent) = 2 /\ sent[2].timed
  /\ res.status = 404

\* C5: predict posts one request, to the requested version and with the
\* given instances as body; on success it returns one class id per entry of
\* the predictions, in order, each the index of the first maximal score.
C5_Predict ==
  /\ ppc \in {"wait", "returned", "raised"} =>
       /\ Len(sent) >= 1
       /\ sent[Len(sent)].version = p_version
       /\ sent[Len(sent)].body = p_instances
  /\ bpc = "warmup" => Len(sent) = (IF ppc = "post" THEN 0 ELSE 1)
  /\ bpc = "timed" => Len(sent) = (IF ppc = "post" THEN i + 1 ELSE i + 2)
  /\ ppc = "returned" =>
       /\ res.status = 200
       /\ Len(class_ids) = Len(res.predictions)
       /\ \A k \in 1 .. Len(class_ids) :
            LET item == res.predictions[k]
                c == class_ids[k]
            IN /\ c \in 0 .. (Len(item) - 1)
               /\ \A j \in 1 .. Len(item) : item[j] <= item[c + 1]
               /\ \A j \in 1 .. c : item[j] < item[c + 1]
               /\ Len(item) = NUM_CLASSES => c \in 0 .. (NUM_CLASSES - 1)

C5_Witness ==
  /\ ppc = "returned" /\ p_version = 2
  /\ Len(class_ids) = 2 /\ class_ids[1] # class_ids[2]
  /\ \E j \in (class_ids[1] + 2) .. NUM_CLASSES :
       res.predictions[1][j] = res.predictions[1][class_ids[1] + 1]

\* C7: the value printed as "Prediction output for the last instance" is the
\* class id of the last instance of the batch in the last timed response.
C7_PrintsLastInstance ==
  bpc = "done" =>
    /\ printed[Len(printed)].line = "last"
    /\ printed[Len(printed)].a = output[batch]

SoftmaxOutput == { << "softmax", << "softmax/Softmax", 0 >> >> }

\* C8 as stated: for every graph the exported signature has the same fixed
\* input names and the single output softmax bound to softmax/Softmax:0.
C8_Original ==
  cpc = "done" =>
    LET f == ServedGraphFile(conv_export_dir)
    IN /\ { x[1] : x \in f.sig.inputs } = {"serving_input_image"}
       /\ f.sig.outputs = SoftmaxOutput

\* C8 (amended): the output is hardcoded (single output softmax bound to
\* softmax/Softmax:0, and the conversion fails with nothing written when the
\* graph has no such node); the input names are not: they are the names of
\* the graph's Placeholder nodes, each bound to the node's tensor :0.
C8_Signature ==
  /\ cpc = "done" =>
       LET f == ServedGraphFile(conv_export_dir)
           g == graph_def.graph
       IN /\ f.sig.outputs = SoftmaxOutput
          /\ \E n \in g : n.name = "softmax/Softmax"
          /\ { x[1] : x \in f.sig.inputs } = { n.name : n \in { m \in g : m.op = "Placeholder" } }
          /\ \A x \in f.sig.inputs : x[2] = << x[1], 0 >>
  /\ (cpc = "raised" /\ error = "KeyError") =>
       /\ ~ \E n \in graph_def.graph : n.name = "softmax/Softmax"
       /\ ~ serving[conv_export_dir].exists

C8_Witness ==
  /\ cpc = "done"
  /\ Cardinality(ServedGraphFile(conv_export_dir).sig.inputs) = 2
  /\ deleted # {}

\* C11: convert_graph_def_to_saved_model deletes an existing target before it
\* reads the graph file, so when the read or the export fails the target is
\* gone and stays gone; both notebook invocations pass a graph file below the
\* exported model directory, not below the target, and such a file is not
\* touched by the deletion.
C11_DeleteBeforeRead ==
  /\ cpc \in {"read", "save", "raised"} => serving[conv_export_dir] = NoDir
  /\ cpc = "raised" =>
       /\ error \in {"NotFoundError", "KeyError"}
       /\ ~ serving[conv_export_dir].exists
  /\ \A c \in {"convert2", "convert3"} :
       /\ ~ UnderServing(ConvertSource(c))
       /\ ConvertSource(c).dir = saved_model_dir
  /\ (~ UnderServing(graph_filepath) /\ cpc \in {"save", "done", "raised"}) =>
       /\ graph_def = ReadFile(export_dir.entries, graph_filepath)
       /\ error = "NotFoundError" <=> ReadFile(export_dir.entries, graph_filepath) = NoFile

C11_Witness ==
  /\ cpc = "raised" /\ error = "KeyError"
  /\ ServingPath(conv_export_dir) \in deleted
  /\ ~ UnderServing(graph_filepath)
  /\ graph_def # NoFile

(* ------------- the notebook with the export cell executed again ------------- *)
ExportsDone == Cardinality({ k \in 1 .. Len(steps) : steps[k] = "export" })

\* the export cell is executed once more before the run goes on
RerunExport ==
  /\ cell = NextCell("export") /\ Quiet
  /\ ExportsDone >= 1
  /\ ExportsDone <= MaxReruns
  /\ cell' = "export"
  /\ UNCHANGED << run, clock, model_dir, export_dir, serving, deleted, steps, reads,
                  calls, saved_model_dir, bash_model_dir, convVars >>
  /\ UNCHANGED << predVars, benchVars, error >>
  /\ UNCHANGED served

NextRerun ==
  \/ Next
  \/ RerunExport

SpecRerun == Init /\ [][NextRerun]_vars

\* C12: after the export step, however often the export cell ran before,
\* export_dir holds exactly one exported model directory, with an all-digit
\* name, the one of the latest export; so the directory the bash cells take
\* (last of the listing) and the one the Python code takes (first all-digit
\* entry) are the same, and the model copied to /serving/mnist/1 is the one
\* frozen and optimised later.
C12_SingleExport ==
  (ExportsDone >= 1 /\ cell # "export") =>
    /\ export_dir.exists
    /\ Cardinality(export_dir.entries) = 1
    /\ \A e \in export_dir.entries : e.name \in Nat /\ e.name = clock
    /\ \A d \in DigitEntries(export_dir.entries) : d = LastListed(export_dir.entries)
    /\ bash_model_dir # 0 => bash_model_dir = clock
    /\ saved_model_dir # 0 => saved_model_dir = clock
    /\ (bash_model_dir # 0 /\ saved_model_dir # 0) =>
         /\ bash_model_dir = saved_model_dir
         /\ ReadFile(export_dir.entries, Path(saved_model_dir, "saved_model.pb"))
              \in serving[1].files
    /\ \A k \in 1 .. Len(reads) :
         reads[k].step \in {"freeze", "optimize"} => reads[k].found

C12_Witness ==
  /\ ExportsDone >= 3
  /\ cell = "done"
  /\ bash_model_dir = saved_model_dir /\ saved_model_dir = clock
  /\ clock >= 3

\* C13: no step of the notebook waits for the server to load a newly written
\* version.  After convert_graph_def_to_saved_model has written
\* /serving/mnist/k (k = 2, 3) nothing but a status query, on whose answer no
\* step depends, runs before benchmark_inference(version=k); the steps of the
\* notebook leave the server's loaded versions alone; a warm-up request that
\* is answered while the server does not serve its version gets a non-success
\* status and raises HTTPError; the benchmark then ends with that single
\* request sent, the run fails and sends nothing more.
C13_NoWaitForServer ==
  [][ /\ (cell = "convert2" /\ cell' \notin {cell, "failed"}) => cell' = "curl2"
      /\ (cell = "curl2" /\ cell' # cell) => (cell' = "bench2" /\ served' = served)
      /\ (cell = "convert3" /\ cell' \notin {cell, "failed"}) => cell' = "bench3"
      /\ (served' # served) => UNCHANGED << pipeVars, predVars, benchVars, error >>
      /\ (bpc = "warmup" /\ ppc = "wait" /\ ppc' # ppc /\ p_version \notin served) =>
           /\ res'.status # 200
           /\ ppc' = "raised"
           /\ error' = "HTTPError"
      /\ (bpc = "warmup" /\ ppc = "raised" /\ bpc' # bpc) =>
           /\ bpc' = "raised"
           /\ Len(sent) = 1 /\ sent' = sent
           /\ printed' = <<>>
      /\ (bpc = "raised" /\ bpc' # bpc) => cell' = "failed"
      /\ (cell = "failed" /\ cell' = "failed") => sent' = sent
    ]_vars

\* /serving/mnist/2 is written, the status query has run, the server has not
\* loaded version 2, and the benchmark of version 2 has ended at its warm-up
C13_Witness ==
  /\ cell = "failed" /\ version = 2
  /\ \E f \in serving[2].files : f.name = "saved_model.pb"
  /\ 2 \notin served
  /\ 1 \in served
  /\ error = "HTTPError" /\ res.status # 200
  /\ Len(sent) = 1 /\ received = 1 /\ sent[1].version = 2
  /\ printed = <<>>

====
